---- MODULE Spec2Model ----
(***************************************************************************)
(* cupy/_binary/packing.py: packbits / unpackbits and their elementwise    *)
(* kernels.                                                                *)
(*                                                                         *)
(* Spec        the two entry points, each call one atomic step.            *)
(* KernelSpec  the kernels themselves, one worker per output index, the    *)
(*             workers interleaved in every order.                         *)
(***************************************************************************)
EXTENDS Integers, Sequences, FiniteSets, TLC

\* ---------------------------------------------------------------- bounds
MaxLen == 10
MaxKernelLen == 16
MaxKernelBytes == 1

\* ------------------------------------------------------- machine integers
Pow2(n) == 2 ^ n

ToUint8(x) == x % 256

RECURSIVE BitOr(_, _)
BitOr(x, y) ==
    IF x = 0 THEN y
    ELSE IF y = 0 THEN x
    ELSE (IF x % 2 = 1 \/ y % 2 = 1 THEN 1 ELSE 0) + 2 * BitOr(x \div 2, y \div 2)

RECURSIVE BitAnd(_, _)
BitAnd(x, y) ==
    IF x = 0 \/ y = 0 THEN 0
    ELSE (IF x % 2 = 1 /\ y % 2 = 1 THEN 1 ELSE 0) + 2 * BitAnd(x \div 2, y \div 2)

ShiftLeft(x, s) == x * Pow2(s)

ShiftRight(x, s) == x \div Pow2(s)

\* ------------------------------------------------------------- ndarrays
\* An array is [dtype, shape, data]; data is the C-order flattening.
Dtypes == {"bool", "int8", "uint8", "int32", "float32", "complex64"}

Kind(dtype) ==
    CASE dtype = "bool" -> "b"
      [] dtype = "int8" -> "i"
      [] dtype = "int32" -> "i"
      [] dtype = "uint8" -> "u"
      [] dtype = "float32" -> "f"
      [] dtype = "complex64" -> "c"
      [] OTHER -> "V"

Cast(dtype, v) ==
    CASE dtype = "bool" -> (IF v # 0 THEN 1 ELSE 0)
      [] dtype = "uint8" -> v % 256
      [] dtype = "int8" -> ((v + 128) % 256) - 128
      [] OTHER -> v

RECURSIVE Prod(_)
Prod(shape) == IF shape = <<>> THEN 1 ELSE Head(shape) * Prod(Tail(shape))

Size(arr) == Prod(arr.shape)

Ravel(arr) == [dtype |-> arr.dtype, shape |-> <<Size(arr)>>, data |-> arr.data]

Zeros(n, dtype) == [dtype |-> dtype, shape |-> <<n>>, data |-> [k \in 1..n |-> 0]]

\* cupy.ndarray(shape): the content is whatever the allocation holds.
Uninit(n, dtype, g) ==
    [dtype |-> dtype, shape |-> <<n>>, data |-> [k \in 1..n |-> (g + 85 * k) % 256]]

NoArray == [dtype |-> "none", shape |-> <<0>>, data |-> <<>>]

\* ------------------------------------------------------------ the kernels
\* One iteration j of the loop of worker i; returns the new value of packed.
cupy_packbits_big(myarray, myarray_size, i, j, packed) ==
    LET k == i * 8 + j
        bit == IF k < myarray_size /\ myarray[k + 1] # 0 THEN 1 ELSE 0
    IN  ToUint8(BitOr(packed, ShiftLeft(bit, 7 - j)))

cupy_packbits_little(myarray, myarray_size, i, j, packed) ==
    LET k == i * 8 + j
        bit == IF k < myarray_size /\ myarray[k + 1] # 0 THEN 1 ELSE 0
    IN  ToUint8(BitOr(packed, ShiftLeft(bit, j)))

PackIter(bo, myarray, myarray_size, i, j, packed) ==
    IF bo = "big" THEN cupy_packbits_big(myarray, myarray_size, i, j, packed)
    ELSE cupy_packbits_little(myarray, myarray_size, i, j, packed)

RECURSIVE PackLoop(_, _, _, _, _, _)
PackLoop(bo, myarray, myarray_size, i, j, packed) ==
    IF j >= 8 THEN packed
    ELSE PackLoop(bo, myarray, myarray_size, i, j + 1,
                  PackIter(bo, myarray, myarray_size, i, j, packed))

\* _packbits_kernel[bitorder](myarray, myarray.size, packed): one worker per
\* element of packed, each updating its own element in place.  The size is
\* passed as an int32; every size below 2^31 is passed unchanged.
PackbitsKernel(bo, myarray, size, packed) ==
    [packed EXCEPT !.data =
        [n \in 1..Size(packed) |->
            PackLoop(bo, myarray.data, size, n - 1, 0, packed.data[n])]]

\* A big-order kernel that forgets to mirror the bit offset.
cupy_unpackbits_big_lsb(myarray, i) ==
    ToUint8(BitAnd(ShiftRight(myarray[(i \div 8) + 1], i % 8), 1))

cupy_unpackbits_big(myarray, i) ==
    ToUint8(BitAnd(ShiftRight(myarray[(i \div 8) + 1], 7 - (i % 8)), 1))

cupy_unpackbits_little(myarray, i) ==
    ToUint8(BitAnd(ShiftRight(myarray[(i \div 8) + 1], i % 8), 1))

UnpackElem(bo, myarray, i) ==
    IF bo = "big" THEN cupy_unpackbits_big(myarray, i)
    ELSE cupy_unpackbits_little(myarray, i)

\* A store that accumulates into the element, as the pack kernels do.
UnpackStore_Or(old, bitval) == BitOr(old, bitval)

\* "unpacked = <expr>;": the element is overwritten, its old content unused.
UnpackStore(old, bitval) == bitval

UnpackbitsKernel(bo, myarray, unpacked) ==
    [unpacked EXCEPT !.data =
        [n \in 1..Size(unpacked) |->
            UnpackStore(unpacked.data[n], UnpackElem(bo, myarray.data, n - 1))]]

\* ------------------------------------------------------ the entry points
Raise(exc, lines) == [outcome |-> exc, value |-> NoArray, lines |-> lines]

Return(arr, lines) == [outcome |-> "returned", value |-> arr, lines |-> lines]

\* The parameters are a, axis, bitorder.  myarray is assigned at line 56,
\* so it is a local of the function, unbound until that line has run.
PackbitsFrame(a, axis, bo) == [a |-> a, axis |-> axis, bitorder |-> bo]

packbits(a, axis, bo) ==
    LET frame == PackbitsFrame(a, axis, bo) IN
    IF "myarray" \notin DOMAIN frame
    THEN Raise("UnboundLocalError", <<49>>)
    ELSE IF Kind(frame.myarray.dtype) \notin {"b", "i", "u"}
    THEN Raise("TypeError", <<49, 50>>)
    ELSE IF frame.bitorder \notin {"big", "little"}
    THEN Raise("ValueError", <<49, 53, 54>>)
    ELSE LET myarray == Ravel(frame.myarray)
             packed_size == (Size(myarray) + 7) \div 8
             packed == Zeros(packed_size, "uint8")
         IN  Return(PackbitsKernel(frame.bitorder, myarray, Size(myarray), packed),
                    <<49, 53, 56, 57, 58, 59>>)

unpackbits(myarray, bo, g) ==
    IF myarray.dtype # "uint8"
    THEN Raise("TypeError", <<91, 92>>)
    ELSE IF bo \notin {"big", "little"}
    THEN Raise("ValueError", <<91, 94, 95>>)
    ELSE LET unpacked == Uninit(Size(myarray) * 8, "uint8", g)
         IN  Return(UnpackbitsKernel(bo, myarray, unpacked), <<91, 94, 97, 98>>)

\* ------------------------------------------------------------------ state
VARIABLES pc, op, arg, bitorder, result,
          kphase, kname, kmode, kin, ksize, kout, kj, klog, kooo

vars == <<pc, op, arg, bitorder, result,
          kphase, kname, kmode, kin, ksize, kout, kj, klog, kooo>>

apiVars == <<pc, op, arg, bitorder, result>>

kernelVars == <<kphase, kname, kmode, kin, ksize, kout, kj, klog, kooo>>

Modes == {"big", "little"}

BitOrders == {"big", "little", "middle"}

Garbage == {0, 255}

\* ----------------------------------------------------------------- inputs
BaseVals(dtype) == IF dtype = "uint8" THEN 0..255 ELSE {-256, -1, 0, 1}

Steps == {0, 37}

Shapes(n) == {<<n>>} \cup (IF n > 0 /\ n % 2 = 0 THEN {<<2, n \div 2>>} ELSE {})

MkArray(dtype, shape, base, step) ==
    [dtype |-> dtype, shape |-> shape,
     data |-> [k \in 1..Prod(shape) |-> Cast(dtype, base + step * (k - 1))]]

Inputs ==
    {MkArray(d, sh, b, st) :
        <<d, sh, b, st>> \in
            UNION {{<<d, sh, b, st>> : sh \in Shapes(n), b \in BaseVals(d), st \in Steps} :
                   <<d, n>> \in Dtypes \X (0..MaxLen)}}

\* ------------------------------------------------- Spec: the entry points
NoResult == [outcome |-> "none", value |-> NoArray, lines |-> <<>>]

ApiInit ==
    /\ pc = "idle"
    /\ op = "none"
    /\ arg = NoArray
    /\ bitorder = "big"
    /\ result = NoResult

KernelIdle ==
    /\ kphase = "idle"
    /\ kname = "none"
    /\ kmode = "big"
    /\ kin = NoArray
    /\ ksize = 0
    /\ kout = NoArray
    /\ kj = <<>>
    /\ klog = {}
    /\ kooo = FALSE

Init == ApiInit /\ KernelIdle

PackbitsCall ==
    /\ pc = "idle"
    /\ \E a \in Inputs, bo \in BitOrders :
         /\ op' = "packbits"
         /\ arg' = a
         /\ bitorder' = bo
         /\ result' = packbits(a, "None", bo)
    /\ pc' = "done"
    /\ UNCHANGED kernelVars

UnpackbitsCall ==
    /\ pc = "idle"
    /\ \E a \in Inputs, bo \in BitOrders, g \in Garbage :
         /\ op' = "unpackbits"
         /\ arg' = a
         /\ bitorder' = bo
         /\ result' = unpackbits(a, bo, g)
    /\ pc' = "done"
    /\ UNCHANGED kernelVars

\* The caller passes the array it was just handed on to the next call.
PackbitsOfResult ==
    /\ pc = "done"
    /\ result.outcome = "returned"
    /\ Size(result.value) <= MaxLen
    /\ \E bo \in BitOrders :
         /\ op' = "packbits"
         /\ arg' = result.value
         /\ bitorder' = bo
         /\ result' = packbits(result.value, "None", bo)
    /\ pc' = "done"
    /\ UNCHANGED kernelVars

UnpackbitsOfResult ==
    /\ pc = "done"
    /\ result.outcome = "returned"
    /\ Size(result.value) <= MaxLen
    /\ \E bo \in BitOrders, g \in Garbage :
         /\ op' = "unpackbits"
         /\ arg' = result.value
         /\ bitorder' = bo
         /\ result' = unpackbits(result.value, bo, g)
    /\ pc' = "done"
    /\ UNCHANGED kernelVars

\* The caller is done with the outcome; nothing of a call outlives it.
Collect ==
    /\ pc = "done"
    /\ pc' = "idle"
    /\ op' = "none"
    /\ arg' = NoArray
    /\ bitorder' = "big"
    /\ result' = NoResult
    /\ UNCHANGED kernelVars

Next ==
    \/ PackbitsCall
    \/ UnpackbitsCall
    \/ PackbitsOfResult
    \/ UnpackbitsOfResult
    \/ Collect

Spec == Init /\ [][Next]_vars

\* ------------------------------------------------- KernelSpec: the workers
\* The kernels run on arguments built as lines 56-58 and 97 build them, one
\* worker per element of the output, scheduled in any order.  klog records
\* every access <<worker, buffer, index, "r" or "w">> a worker makes; kooo
\* records that some worker ran while a lower-numbered one was unfinished.
KernelPackInputs ==
    {[dtype |-> dv[1], shape |-> <<n>>,
      data |-> [k \in 1..n |->
                  IF (mask \div Pow2((k - 1) % 4)) % 2 = 1 THEN dv[2] ELSE 0]] :
        <<n, mask, dv>> \in
            (0..MaxKernelLen) \X (0..15) \X {<<"bool", 1>>, <<"int32", -256>>}}

KernelUnpackInputs ==
    {[dtype |-> "uint8", shape |-> <<n>>,
      data |-> [k \in 1..n |-> (176 + 85 * (k - 1)) % 256]] :
        n \in 0..MaxKernelBytes}

Workers == DOMAIN kj

Iterations == IF kname = "pack" THEN 8 ELSE 1

LaunchPack ==
    /\ kphase = "idle"
    /\ \E a \in KernelPackInputs, bo \in Modes :
         LET myarray == Ravel(a)
             packed_size == (Size(myarray) + 7) \div 8
             packed == Zeros(packed_size, "uint8")
         IN  /\ kname' = "pack"
             /\ kmode' = bo
             /\ kin' = myarray
             /\ ksize' = Size(myarray)
             /\ kout' = packed
             /\ kj' = [i \in 0..(Size(packed) - 1) |-> 0]
    /\ kphase' = "running"
    /\ klog' = {}
    /\ kooo' = FALSE
    /\ UNCHANGED apiVars

LaunchUnpack ==
    /\ kphase = "idle"
    /\ \E myarray \in KernelUnpackInputs, bo \in Modes, g \in Garbage :
         LET unpacked == Uninit(Size(myarray) * 8, "uint8", g)
         IN  /\ kname' = "unpack"
             /\ kmode' = bo
             /\ kin' = myarray
             /\ ksize' = 0
             /\ kout' = unpacked
             /\ kj' = [i \in 0..(Size(unpacked) - 1) |-> 0]
    /\ kphase' = "running"
    /\ klog' = {}
    /\ kooo' = FALSE
    /\ UNCHANGED apiVars

\* What iteration j of pack worker i touches: the size, the input element
\* when k is inside the array, and its own output byte (read, then written).
PackAccesses(i, j) ==
    LET k == i * 8 + j IN
    {<<i, "size", 0, "r">>, <<i, "out", i, "r">>, <<i, "out", i, "w">>}
        \cup (IF k < ksize THEN {<<i, "in", k, "r">>} ELSE {})

UnpackAccesses(i) == {<<i, "in", i \div 8, "r">>, <<i, "out", i, "w">>}

PackWorkerStep ==
    /\ kphase = "running"
    /\ kname = "pack"
    /\ \E i \in Workers :
         /\ kj[i] < 8
         /\ kout' = [kout EXCEPT !.data[i + 1] =
                        PackIter(kmode, kin.data, ksize, i, kj[i], @)]
         /\ kj' = [kj EXCEPT ![i] = @ + 1]
         /\ klog' = klog \cup PackAccesses(i, kj[i])
         /\ kooo' = (kooo \/ \E l \in Workers : l < i /\ kj[l] < 8)
    /\ UNCHANGED <<kphase, kname, kmode, kin, ksize>>
    /\ UNCHANGED apiVars

UnpackWorkerStep ==
    /\ kphase = "running"
    /\ kname = "unpack"
    /\ \E i \in Workers :
         /\ kj[i] < 1
         /\ kout' = [kout EXCEPT !.data[i + 1] =
                        UnpackStore(@, UnpackElem(kmode, kin.data, i))]
         /\ kj' = [kj EXCEPT ![i] = 1]
         /\ klog' = klog \cup UnpackAccesses(i)
         /\ kooo' = (kooo \/ \E l \in Workers : l < i /\ kj[l] < 1)
    /\ UNCHANGED <<kphase, kname, kmode, kin, ksize>>
    /\ UNCHANGED apiVars

\* The launch returns the output array once every worker has finished.
KernelFinish ==
    /\ kphase = "running"
    /\ \A i \in Workers : kj[i] = Iterations
    /\ kphase' = "finished"
    /\ UNCHANGED <<kname, kmode, kin, ksize, kout, kj, klog, kooo>>
    /\ UNCHANGED apiVars

KernelCollect ==
    /\ kphase = "finished"
    /\ kphase' = "idle"
    /\ kname' = "none"
    /\ kmode' = "big"
    /\ kin' = NoArray
    /\ ksize' = 0
    /\ kout' = NoArray
    /\ kj' = <<>>
    /\ klog' = {}
    /\ kooo' = FALSE
    /\ UNCHANGED apiVars

KernelNext ==
    \/ LaunchPack
    \/ LaunchUnpack
    \/ PackWorkerStep
    \/ UnpackWorkerStep
    \/ KernelFinish
    \/ KernelCollect

KernelSpec == Init /\ [][KernelNext]_vars

\* ============================================================ properties
\* The layouts the specification states, written with arithmetic only.
Truthy(v) == IF v # 0 THEN 1 ELSE 0

BitAt(byte, p) == (byte \div (2 ^ p)) % 2

Ceil8(n) == -((-n) \div 8)

Position(bo, j) == IF bo = "big" THEN 7 - j ELSE j

PaddedTruth(x, n) == [k \in 1..(8 * Ceil8(n)) |-> IF k <= n THEN Truthy(x[k]) ELSE 0]

PackLayout(bo, x, n, bytes) ==
    \A i \in 0..(Ceil8(n) - 1) : \A j \in 0..7 :
        BitAt(bytes[i + 1], Position(bo, j))
            = (IF 8 * i + j < n THEN Truthy(x[8 * i + j + 1]) ELSE 0)

UnpackLayout(bo, y, m, bits) ==
    \A i \in 0..(8 * m - 1) :
        /\ bits[i + 1] = BitAt(y[(i \div 8) + 1], Position(bo, i % 8))
        /\ bits[i + 1] \in {0, 1}

IsUint8Vector(arr, n) ==
    /\ arr.dtype = "uint8"
    /\ arr.shape = <<n>>
    /\ DOMAIN arr.data = 1..n
    /\ \A k \in 1..n : arr.data[k] \in 0..255

PackCalled == pc = "done" /\ op = "packbits"

UnpackCalled == pc = "done" /\ op = "unpackbits"

ValidPackCall == PackCalled /\ Kind(arg.dtype) \in {"b", "i", "u"} /\ bitorder \in Modes

ValidUnpackCall == UnpackCalled /\ arg.dtype = "uint8" /\ bitorder \in Modes

Allocated == \E n \in 1..Len(result.lines) : result.lines[n] \in {58, 97}

KernelRan == \E n \in 1..Len(result.lines) : result.lines[n] \in {59, 98}

\* C1: round trip with padding.  After packbits has been called on an array
\* of boolean or integer kind with bit order big or little, it has returned,
\* and unpackbits of what it returned, in the same bit order, returns the
\* truthiness (0/1) of the n input elements followed by 8*ceil(n/8) - n
\* zeros.
C1_RoundTrip ==
    ValidPackCall =>
        /\ result.outcome = "returned"
        /\ \A g \in Garbage :
             LET back == unpackbits(result.value, bitorder, g) IN
             /\ back.outcome = "returned"
             /\ back.value.data = PaddedTruth(arg.data, Size(arg))

\* C2: pack bit layout.  After a valid packbits call the returned bytes hold,
\* for byte i and j in 0..7, at bit 7 - j (big) or j (little), the
\* truthiness of input element 8*i + j, and 0 where 8*i + j >= n; packing
\* [1,0,0,0,0,0,0,0] gives [128] in big and [1] in little order.
C2_PackLayout ==
    ValidPackCall =>
        /\ result.outcome = "returned"
        /\ PackLayout(bitorder, arg.data, Size(arg), result.value.data)
        /\ (arg.data = <<1, 0, 0, 0, 0, 0, 0, 0>> =>
                result.value.data = (IF bitorder = "big" THEN <<128>> ELSE <<1>>))

\* C3: unpack bit layout.  After unpackbits has been called on a uint8 array
\* y of m bytes with bit order big or little, it has returned 8*m elements,
\* element i being bit 7 - (i mod 8) (big) or bit i mod 8 (little) of
\* y[i div 8], hence 0 or 1, whatever the output buffer held before;
\* unpack([176], big) = [1,0,1,1,0,0,0,0], unpack([5], little) =
\* [1,0,1,0,0,0,0,0].
C3_UnpackLayout ==
    ValidUnpackCall =>
        /\ result.outcome = "returned"
        /\ DOMAIN result.value.data = 1..(8 * Size(arg))
        /\ UnpackLayout(bitorder, arg.data, Size(arg), result.value.data)
        /\ (arg.data = <<176>> /\ bitorder = "big" =>
                result.value.data = <<1, 0, 1, 1, 0, 0, 0, 0>>)
        /\ (arg.data = <<5>> /\ bitorder = "little" =>
                result.value.data = <<1, 0, 1, 0, 0, 0, 0, 0>>)

C3_Witness ==
    /\ ValidUnpackCall
    /\ arg.data = <<176, 213>>
    /\ bitorder = "big"
    /\ result.outcome = "returned"
    /\ result.value.data = <<1, 0, 1, 1, 0, 0, 0, 0, 1, 1, 0, 1, 0, 1, 0, 1>>

\* C4: output lengths.  A valid packbits call returns exactly ceil(n/8)
\* bytes, and a valid unpackbits call returns exactly 8*m elements.
C4_OutputLengths ==
    /\ ValidPackCall =>
         /\ result.outcome = "returned"
         /\ IsUint8Vector(result.value, Ceil8(Size(arg)))
    /\ ValidUnpackCall =>
         /\ result.outcome = "returned"
         /\ IsUint8Vector(result.value, 8 * Size(arg))

\* C5: empty input.  Packing a zero-length array of boolean or integer kind
\* in either bit order is not an error and returns a zero-length uint8
\* array.
C5_EmptyPack ==
    (ValidPackCall /\ Size(arg) = 0) =>
        /\ result.outcome = "returned"
        /\ result.value.dtype = "uint8"
        /\ Size(result.value) = 0

\* C6: type validation.  packbits on an array whose kind is not b, i or u
\* raises TypeError, unpackbits on an array whose dtype is not uint8 raises
\* TypeError, and in both cases nothing was allocated and no kernel ran.
C6_TypeValidation ==
    /\ (PackCalled /\ Kind(arg.dtype) \notin {"b", "i", "u"}) =>
         (result.outcome = "TypeError" /\ ~Allocated /\ ~KernelRan)
    /\ (UnpackCalled /\ arg.dtype # "uint8") =>
         (result.outcome = "TypeError" /\ ~Allocated /\ ~KernelRan)

\* C7: bit-order validation.  packbits and unpackbits, called on an array of
\* an accepted type with a bit order other than big or little, raise
\* ValueError, and nothing was allocated and no kernel ran.
C7_BitOrderValidation ==
    /\ (PackCalled /\ Kind(arg.dtype) \in {"b", "i", "u"} /\ bitorder \notin Modes) =>
         (result.outcome = "ValueError" /\ ~Allocated /\ ~KernelRan)
    /\ (UnpackCalled /\ arg.dtype = "uint8" /\ bitorder \notin Modes) =>
         (result.outcome = "ValueError" /\ ~Allocated /\ ~KernelRan)

\* C8: documented empty-input behaviour.  packbits called on an empty array
\* returns a copy of it: same dtype, same shape, same (empty) content.
C8_EmptyPackIsCopy ==
    (ValidPackCall /\ Size(arg) = 0) =>
        /\ result.outcome = "returned"
        /\ result.value = arg

\* C10: totality of packbits.  A packbits call on an array of boolean or
\* integer kind with bit order big or little returns, and no packbits call
\* ends in anything but a return, a TypeError or a ValueError.
C10_PackbitsTotal ==
    /\ ValidPackCall => result.outcome = "returned"
    /\ PackCalled => result.outcome \in {"returned", "TypeError", "ValueError"}

\* C9: order independence of the kernels.  Whatever order the workers ran
\* in, a finished pack kernel leaves in byte i exactly the claimed layout of
\* input[8i..8i+7], a finished unpack kernel leaves in element i the
\* claimed bit of byte i div 8 whatever the output buffer held at
\* allocation, and at every moment no worker has written a location that
\* another worker has read or written, and none has written the input.
RaceFree ==
    \A e \in klog : \A f \in klog :
        (e[4] = "w" /\ e[1] # f[1]) => ~(e[2] = f[2] /\ e[3] = f[3])

OwnWindow ==
    \A e \in klog :
        /\ e[2] = "in" => e[4] = "r"
        /\ e[2] = "out" => e[3] = e[1]
        /\ (e[2] = "in" /\ kname = "pack") => e[3] \in (8 * e[1])..(8 * e[1] + 7)
        /\ (e[2] = "in" /\ kname = "unpack") => e[3] = e[1] \div 8
        /\ (e[2] = "out" /\ kname = "unpack") => e[4] = "w"

====
